---- MODULE Spec2Model ----
(***************************************************************************)
(* DisjointSet (src/disjoint_set/main.py): a union-find structure over a   *)
(* parent map `_data`, with recursive find and full path compression,      *)
(* union by attaching the first root under the second, and lazy            *)
(* enumeration of the classes.                                             *)
(*                                                                         *)
(* A structure value is a record [data, order]: data is the parent map (a  *)
(* function whose DOMAIN is the key set) and order is the insertion order  *)
(* of the keys (a Python dict iterates in insertion order).                *)
(***************************************************************************)
EXTENDS Integers, Sequences, FiniteSets, TLC

\* The element universe is 1..MaxElem.
MaxElem == 3

Elems == 1..MaxElem

\* Python's None, returned by union.
None == 0

VARIABLES
    data,       \* self._data: the parent map, DOMAIN data is the key set
    order,      \* insertion order of the keys of self._data
    op,         \* the operation that ran last
    raised,     \* the exception the last operation raised, or "none"
    gen,        \* the generator made last by itersets() or __iter__()
    linked,     \* reference: the equivalence closure of the pairs passed to union
    referenced  \* reference: every argument of a find/union/connected call so far

vars == <<data, order, op, raised, gen, linked, referenced>>

Range(seq) == {seq[i] : i \in 1..Len(seq)}

Self == [data |-> data, order |-> order]

(***************************************************************************)
(* ArgDefaultDict(identity): a dict whose lookup of a missing key k stores *)
(* identity(k) = k under k and returns it.  __getitem__ gives the state    *)
(* after the lookup; the value looked up is then s.data[k].                *)
(***************************************************************************)
getitem(s, k) ==
    IF k \in DOMAIN s.data
    THEN s
    ELSE [data  |-> [e \in DOMAIN s.data \cup {k} |-> IF e = k THEN k ELSE s.data[e]],
          order |-> Append(s.order, k)]

\* self._data[k] = v  (dict.__setitem__: a new key is appended to the order)
setitem(s, k, v) ==
    [data  |-> [e \in DOMAIN s.data \cup {k} |-> IF e = k THEN v ELSE s.data[e]],
     order |-> IF k \in DOMAIN s.data THEN s.order ELSE Append(s.order, k)]

\* Python's recursion limit, in frames of find: a chain of distinct keys is
\* never longer than the key set, so reaching the limit means a cycle.
RecursionLimit(s) == Cardinality(DOMAIN s.data) + 2

\* The value of a one-element set: Only({e(v) : v \in {expr}}) evaluates expr
\* once and names its value v.
Only(S) == CHOOSE e \in S : TRUE

\* return self._data[x]
returned(s, x) == [s |-> s, ret |-> s.data[x], exc |-> FALSE]

(***************************************************************************)
(* find(x), lines 55-68.  The result is [s, ret, exc]: the structure after *)
(* the call, the value returned and whether RecursionError was raised.     *)
(***************************************************************************)
\* find without the assignment of line 67: no compression
RECURSIVE findRec_nocompress(_, _, _)
findRec_nocompress(s, x, depth) ==
    IF depth = 0
    THEN [s |-> s, ret |-> x, exc |-> TRUE]
    ELSE Only({
           IF x # s1.data[x]
           THEN findRec_nocompress(s1, s1.data[x], depth - 1)
           ELSE returned(s1, x)
           : s1 \in {getitem(s, x)} })

\* find with the assignment of line 67 reversed: the root is put under x
RECURSIVE findRec_reversed(_, _, _)
findRec_reversed(s, x, depth) ==
    IF depth = 0
    THEN [s |-> s, ret |-> x, exc |-> TRUE]
    ELSE Only({
           IF x # s1.data[x]
           THEN Only({ IF r.exc
                       THEN r
                       ELSE [s |-> setitem(r.s, r.ret, x), ret |-> r.ret, exc |-> FALSE]
                       : r \in {findRec_reversed(s1, s1.data[x], depth - 1)} })
           ELSE returned(s1, x)
           : s1 \in {getitem(s, x)} })

RECURSIVE findRec(_, _, _)
findRec(s, x, depth) ==
    IF depth = 0
    THEN [s |-> s, ret |-> x, exc |-> TRUE]
    ELSE Only({
           IF x # s1.data[x]                           \* if x != self._data[x]
           THEN Only({ IF r.exc
                       THEN r                          \* self._data[x] = find(...)
                       ELSE returned(setitem(r.s, x, r.ret), x)
                       : r \in {findRec(s1, s1.data[x], depth - 1)} })
           ELSE returned(s1, x)
           : s1 \in {getitem(s, x)} })                 \* self._data[x]

\* find without the recursion: answers with the parent
find_parent(s, x) == returned(getitem(s, x), x)

\* find that answers for an unseen key without storing it
find_novivify(s, x) ==
    IF x \in DOMAIN s.data
    THEN findRec(s, x, RecursionLimit(s))
    ELSE [s |-> s, ret |-> x, exc |-> FALSE]

find(s, x) == findRec(s, x, RecursionLimit(s))

(***************************************************************************)
(* union(x, y), lines 70-80.  attach(s, px, py, x, y) is lines 79-80 with  *)
(* px = parent_x and py = parent_y.                                        *)
(***************************************************************************)
\* the first argument's root survives
attach_swapped(s, px, py, x, y) ==
    IF px # py THEN setitem(s, py, px) ELSE s

\* attaches x itself, not its root
attach_noroot(s, px, py, x, y) ==
    IF px # py THEN setitem(s, x, py) ELSE s

\* merges only towards the larger root
attach_ordered(s, px, py, x, y) ==
    IF px < py THEN setitem(s, px, py) ELSE s

\* merges by removing the absorbed root's entry
attach_delete(s, px, py, x, y) ==
    IF px # py
    THEN [data  |-> [e \in DOMAIN s.data \ {px} |-> s.data[e]],
          order |-> SelectSeq(s.order, LAMBDA e : e # px)]
    ELSE s

\* no test, and y in the place of parent_y
attach_arg(s, px, py, x, y) == setitem(s, px, y)

attach(s, px, py, x, y) ==
    IF px # py THEN setitem(s, px, py) ELSE s

union(s, x, y) ==
    Only({ Only({ IF fx.exc \/ fy.exc
                  THEN [s |-> fy.s, ret |-> None, exc |-> TRUE]
                  ELSE [s |-> attach(fy.s, fx.ret, fy.ret, x, y),
                        ret |-> None, exc |-> FALSE]
                  : fy \in {find(fx.s, y)} })          \* parent_y
           : fx \in {find(s, x)} })                    \* parent_x

(***************************************************************************)
(* connected(x, y), lines 82-96: find(x) is evaluated before find(y).      *)
(***************************************************************************)
\* compares the root of x with the parent of y
connected_parent(s, x, y) ==
    Only({ Only({ [s |-> s1, ans |-> (fx.ret = s1.data[y]), exc |-> fx.exc]
                  : s1 \in {getitem(fx.s, y)} })
           : fx \in {find(s, x)} })

connected(s, x, y) ==
    Only({ Only({ [s |-> fy.s, ans |-> (fx.ret = fy.ret), exc |-> fx.exc \/ fy.exc]
                  : fy \in {find(fx.s, y)} })
           : fx \in {find(s, x)} })

(***************************************************************************)
(* __contains__(item), lines 22-23: `item in self._data` is a plain key    *)
(* test, it does not go through the lookup of missing keys.                *)
(***************************************************************************)
\* a membership test written as a lookup
contains_lookup(s, item) ==
    [s |-> getitem(s, item), ans |-> (item \in DOMAIN getitem(s, item).data)]

contains(s, item) ==
    [s |-> s, ans |-> (item \in DOMAIN s.data)]

(***************************************************************************)
(* itersets(), lines 40-53.  A generator: the call runs nothing; the first *)
(* next() runs the loop of lines 49-51 and yields the first set, each      *)
(* later next() yields the following one.  element_classes is a dict from  *)
(* root to set, kept here as the sequence of its [root, members] entries   *)
(* in insertion order.                                                     *)
(***************************************************************************)
\* element_classes[root].add(element), the defaultdict making an empty set
add(cls, root, element) ==
    IF \E j \in 1..Len(cls) : cls[j].root = root
    THEN [j \in 1..Len(cls) |->
            IF cls[j].root = root
            THEN [cls[j] EXCEPT !.members = @ \cup {element}]
            ELSE cls[j]]
    ELSE Append(cls, [root |-> root, members |-> {element}])

\* groups by the parent pointer, not by the root
RECURSIVE group_parent(_, _, _)
group_parent(s, i, cls) ==
    IF i > Len(s.order)
    THEN [s |-> s, classes |-> cls, exc |-> FALSE]
    ELSE group_parent(s, i + 1, add(cls, s.data[s.order[i]], s.order[i]))

\* for element in self._data: element_classes[self.find(element)].add(element)
\* from the i-th key on
RECURSIVE group(_, _, _)
group(s, i, cls) ==
    IF i > Len(s.order)
    THEN [s |-> s, classes |-> cls, exc |-> FALSE]
    ELSE Only({ IF r.exc
                THEN [s |-> r.s, classes |-> cls, exc |-> TRUE]
                ELSE group(r.s, i + 1, add(cls, r.ret, s.order[i]))
                : r \in {find(s, s.order[i])} })

(***************************************************************************)
(* The reference relation: reflexive-symmetric-transitive closure of the   *)
(* pairs passed to union.  linked is kept closed, so adding one pair joins *)
(* the two classes it touches.                                             *)
(***************************************************************************)
Join(rel, x, y) ==
    rel \cup {<<a, b>> \in Elems \X Elems :
                 \/ <<a, x>> \in rel /\ <<y, b>> \in rel
                 \/ <<a, y>> \in rel /\ <<x, b>> \in rel}

Identity == {<<e, e>> : e \in Elems}

(***************************************************************************)
(* Observations: the operations applied to a structure value, read for     *)
(* their result; nothing is stored.                                        *)
(***************************************************************************)
SelfNext == [data |-> data', order |-> order']

\* what find(e) returns on s
RootOf(s, e) == find(s, e).ret

\* what connected(x, y) returns on s
Conn(s, x, y) == connected(s, x, y).ans

\* the class of e on s: the elements find sends to the same root (an unseen
\* element is its own root)
ClassOf(s, e) == {k \in Elems : RootOf(s, k) = RootOf(s, e)}

\* the partition of the known elements of s
Partition(s) ==
    Only({ {{k \in DOMAIN s.data : rt[k] = rt[e]} : e \in DOMAIN s.data}
           : rt \in {[k \in DOMAIN s.data |-> RootOf(s, k)]} })

\* the keys of s whose parent is not a root
Deep(s) == {e \in DOMAIN s.data : s.data[s.data[e]] # s.data[e]}

(***************************************************************************)
(* The state after construction and the calls.                             *)
(*                                                                         *)
(* gen is the generator object made last (a newer one replaces it: to the  *)
(* older one, the newer one's steps are finds like any other):             *)
(*   kind    "itersets", "iter", or "none" when there is none              *)
(*   st      "created" (no next() yet), "running", "done"                  *)
(*   classes itersets: the entries of element_classes                      *)
(*   pos     how many values it has yielded (iter: keys passed)            *)
(*   used    iter: the dict size its dict iterator remembers               *)
(*   out     iter: the (key, root) pairs yielded                           *)
(*   clean   no other operation ran since it was made                      *)
(*   atCall  the partition when it was made                                *)
(*   deep    the keys whose parent was not a root when it was made         *)
(***************************************************************************)
NoGen ==
    [kind |-> "none", st |-> "done", classes |-> <<>>, pos |-> 0, used |-> 0,
     out |-> <<>>, clean |-> TRUE, atCall |-> {}, deep |-> {}]

Init ==
    /\ data = <<>>                                     \* line 20: an empty dict
    /\ order = <<>>
    /\ op = "init"
    /\ raised = "none"
    /\ gen = NoGen
    /\ linked = Identity
    /\ referenced = {}

Live(g) == g.st \in {"created", "running"}

\* The generator after a call made outside it: a suspended one has had
\* another operation in between; an exhausted one is dropped.
Touch(g) == IF Live(g) THEN [g EXCEPT !.clean = FALSE] ELSE NoGen

Exc(r) == IF r.exc THEN "RecursionError" ELSE "none"

DoFind(x) ==
    \E r \in {find(Self, x)} :
        /\ data' = r.s.data
        /\ order' = r.s.order
        /\ op' = "find"
        /\ raised' = Exc(r)
        /\ referenced' = referenced \cup {x}
        /\ gen' = Touch(gen)
        /\ UNCHANGED linked

DoUnion(x, y) ==
    \E r \in {union(Self, x, y)} :
        /\ data' = r.s.data
        /\ order' = r.s.order
        /\ op' = "union"
        /\ raised' = Exc(r)
        /\ referenced' = referenced \cup {x, y}
        /\ linked' = Join(linked, x, y)
        /\ gen' = Touch(gen)

DoConnected(x, y) ==
    \E r \in {connected(Self, x, y)} :
        /\ data' = r.s.data
        /\ order' = r.s.order
        /\ op' = "connected"
        /\ raised' = Exc(r)
        /\ referenced' = referenced \cup {x, y}
        /\ gen' = Touch(gen)
        /\ UNCHANGED linked

DoContains(x) ==
    \E r \in {contains(Self, x)} :
        /\ data' = r.s.data
        /\ order' = r.s.order
        /\ op' = "contains"
        /\ raised' = "none"
        /\ gen' = Touch(gen)
        /\ UNCHANGED <<linked, referenced>>

Find == \E x \in Elems : DoFind(x)

Union == \E x \in Elems, y \in Elems : DoUnion(x, y)

Connected == \E x \in Elems, y \in Elems : DoConnected(x, y)

Contains == \E x \in Elems : DoContains(x)

\* The calls alone: no generator is ever made.
Next == Find \/ Union \/ Connected \/ Contains

Spec == Init /\ [][Next]_vars

\* A wider range of elements for the calls alone: with four keys a chain can
\* have three parent links, and a key can lie off a chain of two.
MaxWide == 4

Wide == 1..MaxWide

FindWide == \E x \in Wide : DoFind(x)

UnionWide == \E x, y \in Wide : DoUnion(x, y)

ConnectedWide == \E x, y \in Wide : DoConnected(x, y)

ContainsWide == \E item \in Wide : DoContains(item)

NextWide == FindWide \/ UnionWide \/ ConnectedWide \/ ContainsWide

SpecWide == Init /\ [][NextWide]_vars

(***************************************************************************)
(* The generator of itersets().                                            *)
(***************************************************************************)
\* ds.itersets(): makes the generator, runs none of its body
ItersetsCall ==
    /\ gen' = [NoGen EXCEPT !.kind = "itersets", !.st = "created",
                            !.atCall = Partition(Self),
                            !.deep = Deep(Self)]
    /\ op' = "itersets"
    /\ raised' = "none"
    /\ UNCHANGED <<data, order, linked, referenced>>

\* the first next(): lines 49-51, then the first set of line 53 if there is one
ItersetsFirst ==
    /\ gen.kind = "itersets" /\ gen.st = "created"
    /\ \E r \in {group(Self, 1, <<>>)} :
          /\ data' = r.s.data
          /\ order' = r.s.order
          /\ raised' = Exc(r)
          /\ gen' = [gen EXCEPT
                        !.classes = r.classes,
                        !.pos = IF Len(r.classes) > 0 /\ ~r.exc THEN 1 ELSE 0,
                        !.st = IF Len(r.classes) > 0 /\ ~r.exc THEN "running" ELSE "done"]
    /\ op' = "itersets_next"
    /\ UNCHANGED <<linked, referenced>>

\* a later next(): the following set of line 53, or the end
ItersetsNext ==
    /\ gen.kind = "itersets" /\ gen.st = "running"
    /\ gen' = IF gen.pos < Len(gen.classes)
              THEN [gen EXCEPT !.pos = @ + 1]
              ELSE [gen EXCEPT !.st = "done"]
    /\ op' = "itersets_next"
    /\ raised' = "none"
    /\ UNCHANGED <<data, order, linked, referenced>>

\* the sets an itersets generator has yielded so far
Yielded == [i \in 1..gen.pos |-> gen.classes[i].members]

(***************************************************************************)
(* The generator of __iter__(), lines 36-38.  `for key in self._data`      *)
(* makes a dict iterator at the first next(); it remembers the dict's size *)
(* and raises RuntimeError at a step that finds the size changed.          *)
(***************************************************************************)
\* yields the parent pointer, without find
iterstep_parent(s, key) == [s |-> s, val |-> <<key, s.data[key]>>, exc |-> FALSE]

\* line 38: yield key, self.find(key)
iterstep(s, key) ==
    Only({ [s |-> r.s, val |-> <<key, r.ret>>, exc |-> r.exc] : r \in {find(s, key)} })

\* iter(ds): makes the generator, runs none of its body
IterCall ==
    /\ gen' = [NoGen EXCEPT !.kind = "iter", !.st = "created",
                            !.atCall = Partition(Self),
                            !.deep = Deep(Self)]
    /\ op' = "iter"
    /\ raised' = "none"
    /\ UNCHANGED <<data, order, linked, referenced>>

\* the size the dict iterator compares with: taken when the loop starts
Used == IF gen.st = "created" THEN Len(order) ELSE gen.used

\* next(): yield key, self.find(key) for the next key
IterNext ==
    /\ gen.kind = "iter" /\ Live(gen)
    /\ Len(order) = Used
    /\ gen.pos < Len(order)
    /\ \E r \in {iterstep(Self, order[gen.pos + 1])} :
          /\ data' = r.s.data
          /\ order' = r.s.order
          /\ raised' = Exc(r)
          /\ gen' = [gen EXCEPT
                        !.st = IF r.exc THEN "done" ELSE "running",
                        !.used = Used,
                        !.pos = @ + 1,
                        !.out = IF r.exc THEN @ ELSE Append(@, r.val)]
    /\ op' = "iter_next"
    /\ UNCHANGED <<linked, referenced>>

\* next() after the last key: the loop ends, StopIteration
IterStop ==
    /\ gen.kind = "iter" /\ Live(gen)
    /\ Len(order) = Used
    /\ gen.pos = Len(order)
    /\ gen' = [gen EXCEPT !.st = "done", !.used = Used]
    /\ op' = "iter_next"
    /\ raised' = "none"
    /\ UNCHANGED <<data, order, linked, referenced>>

\* next() after a key was inserted since the loop started:
\* RuntimeError: dictionary changed size during iteration
IterRaise ==
    /\ gen.kind = "iter" /\ Live(gen)
    /\ Len(order) # Used
    /\ gen' = [gen EXCEPT !.st = "done"]
    /\ op' = "iter_next"
    /\ raised' = "RuntimeError"
    /\ UNCHANGED <<data, order, linked, referenced>>

\* The calls and the generators, in any interleaving.
NextGen ==
    \/ Find \/ Union \/ Connected \/ Contains
    \/ ItersetsCall \/ ItersetsFirst \/ ItersetsNext
    \/ IterCall \/ IterNext \/ IterStop \/ IterRaise

SpecGen == Init /\ [][NextGen]_vars

\* The calls and the generators, each generator consumed to the end (or
\* abandoned for a new one) with no other call in between.
NextPass ==
    \/ ~Live(gen) /\ (Find \/ Union \/ Connected \/ Contains)
    \/ ItersetsCall \/ ItersetsFirst \/ ItersetsNext
    \/ IterCall \/ IterNext \/ IterStop

SpecPass == Init /\ [][NextPass]_vars

(***************************************************************************)
(* Properties                                                              *)
(***************************************************************************)
Chain(e) == e \in DOMAIN data /\ data[e] # e /\ data[data[e]] # data[e]

\* x is stored in s as its own root
OwnRoot(s, x) == x \in DOMAIN s.data /\ s.data[x] = x

\* C1: after any sequence of find, union and connected calls, connected(x, y)
\* returns True exactly when x = y or x and y are linked by the
\* reflexive-symmetric-transitive closure of the pairs passed to union so far,
\* and no call raises.
ConnectedIsUnionClosure ==
    /\ raised = "none"
    /\ \A x \in Elems, y \in Elems :
          /\ ~connected(Self, x, y).exc
          /\ Conn(Self, x, y) <=> (<<x, y>> \in linked)

\* C1 witness: after a connected call, two distinct keys are linked by the
\* unions made and a third key is linked to neither.
ConnectedIsUnionClosureWitness ==
    /\ op = "connected"
    /\ \E x \in DOMAIN data, y \in DOMAIN data, z \in DOMAIN data :
          x # y /\ <<x, y>> \in linked /\ <<x, z>> \notin linked

\* C2: connected(x, y) is True on the structure union(x, y) leaves, and a
\* pair that connected reports True for is still reported True after any
\* further step (a step that leaves the structure as it is keeps every answer).
UnionConnectsForever ==
    /\ [](\A x \in Elems, y \in Elems : Conn(union(Self, x, y).s, x, y))
    /\ [][ \/ SelfNext = Self
           \/ \A x \in Elems, y \in Elems : Conn(Self, x, y) => Conn(SelfNext, x, y)
         ]_vars

\* C2 witness: after a union, every element is a key and all of them are in
\* one class: the pairs merged by the earlier unions are still merged.
UnionConnectsForeverWitness ==
    /\ op = "union" /\ DOMAIN data = Elems
    /\ \A x \in Elems, y \in Elems : <<x, y>> \in linked /\ Conn(Self, x, y)

\* C3: when x and y are in different classes, union(x, y) makes the root
\* that y's class had the root of every element of the two classes.
SecondRootSurvives ==
    \A x \in Elems, y \in Elems :
        RootOf(Self, x) # RootOf(Self, y)
        => \A u \in {union(Self, x, y).s}, ry \in {RootOf(Self, y)} :
              \A e \in ClassOf(Self, x) \cup ClassOf(Self, y) : RootOf(u, e) = ry

\* C3 witness: a union has attached a class of more than one element under
\* another root: a chain of two parent links exists.
SecondRootSurvivesWitness ==
    /\ op = "union"
    /\ \E e \in DOMAIN data : Chain(e)

\* C5: from any reachable state union(a, b) and union(b, a) leave the same
\* keys and the same partition of them.
UnionArgumentOrder ==
    \A a \in Elems, b \in Elems :
        \A ab \in {union(Self, a, b).s}, ba \in {union(Self, b, a).s} :
            /\ Partition(ab) = Partition(ba)
            /\ DOMAIN ab.data = DOMAIN ba.data

\* C5 witness: after a union that merged, there are a known and an unseen
\* element for which the two argument orders leave different roots.
UnionArgumentOrderWitness ==
    /\ op = "union"
    /\ \E a \in DOMAIN data, b \in Elems \ DOMAIN data :
          /\ data[a] # a
          /\ RootOf(union(Self, a, b).s, a) # RootOf(union(Self, b, a).s, a)

\* C6: in every reachable state connected is reflexive (also for an unseen
\* element), symmetric and transitive, the calls being made one after
\* another on the structure the earlier calls left.
ConnectedIsEquivalence ==
    /\ \A x \in Elems : Conn(Self, x, x)
    /\ \A x \in Elems, y \in Elems :
          \A c1 \in {connected(Self, x, y)} :
              /\ c1.ans = Conn(c1.s, y, x)
              /\ c1.ans => \A z \in Elems :
                              \A c2 \in {connected(c1.s, y, z)} :
                                  c2.ans => Conn(c2.s, x, z)

\* C6 witness: after a connected call a chain of two parent links is still
\* uncompressed, so later connected calls compress while they answer.
ConnectedIsEquivalenceWitness ==
    /\ op = "connected"
    /\ \E e \in DOMAIN data : Chain(e)

\* C7: find, union and connected auto-vivify: find(x) on an unseen x returns
\* x and stores x as its own root, connected on two distinct unseen elements
\* is False and stores both as their own roots, and after any of these calls
\* contains is True for every argument.
AutoVivify ==
    /\ \A x \in Elems :
          \A f \in {find(Self, x)} :
              /\ contains(f.s, x).ans
              /\ x \notin DOMAIN data => (f.ret = x /\ OwnRoot(f.s, x))
    /\ \A x \in Elems, y \in Elems :
          \A u \in {union(Self, x, y)}, c \in {connected(Self, x, y)} :
              /\ contains(u.s, x).ans /\ contains(u.s, y).ans
              /\ contains(c.s, x).ans /\ contains(c.s, y).ans
              /\ (x # y /\ x \notin DOMAIN data /\ y \notin DOMAIN data)
                 => (~c.ans /\ OwnRoot(c.s, x) /\ OwnRoot(c.s, y))

\* C7 witness: connected has run on a fresh structure with two distinct
\* unseen elements: they are the only keys, each its own root, and a third
\* element is still unseen.
AutoVivifyWitness ==
    /\ op = "connected"
    /\ Len(order) = 2 /\ order[1] # order[2]
    /\ \A e \in DOMAIN data : data[e] = e
    /\ linked = Identity

\* C8: contains(x) leaves the parent map as it is and answers whether x is a
\* key, which is whether x was an argument of an earlier find, union or
\* connected call; a step that is a contains call changes no key or value.
ContainsIsPure ==
    [][ /\ \A x \in Elems :
              /\ contains(Self, x).s = Self
              /\ contains(Self, x).ans = (x \in DOMAIN data)
              /\ contains(Self, x).ans = (x \in referenced)
        /\ op' = "contains" => (data' = data /\ order' = order)
      ]_vars

\* C8 witness: contains has run on a structure that has keys and an unseen
\* element.
ContainsIsPureWitness ==
    /\ op = "contains"
    /\ DOMAIN data # {} /\ DOMAIN data # Elems

\* C9 as stated: right after a call of find, union, connected or contains,
\* every argument of the call is a key of the parent map.
EveryReferenceInserts ==
    /\ \A x \in Elems : x \in DOMAIN find(Self, x).s.data
    /\ \A x \in Elems, y \in Elems :
          /\ {x, y} \subseteq DOMAIN union(Self, x, y).s.data
          /\ {x, y} \subseteq DOMAIN connected(Self, x, y).s.data
    /\ \A x \in Elems : x \in DOMAIN contains(Self, x).s.data

\* C9 amended: the keys are exactly the elements referenced so far by find,
\* union or connected, each inserted once; contains inserts nothing.
KeysAreReferenced ==
    /\ DOMAIN data = referenced
    /\ Range(order) = referenced
    /\ Len(order) = Cardinality(referenced)
    /\ \A x \in Elems \ DOMAIN data : x \notin DOMAIN contains(Self, x).s.data

\* C9 witness: contains has run, every call so far was a contains call, and
\* no element has become a key.
KeysAreReferencedWitness ==
    /\ op = "contains"
    /\ referenced = {} /\ DOMAIN data = {}

\* C10: no step of any operation or generator removes a key: the key set
\* only grows and the keys keep their place in the insertion order.
KeysOnlyGrow ==
    [][ /\ DOMAIN data \subseteq DOMAIN data'
        /\ Len(order) <= Len(order')
        /\ SubSeq(order', 1, Len(order)) = order
      ]_vars

\* C10 witness: a generator step has run on a structure holding every
\* element, after calls were made while the generator was suspended.
KeysOnlyGrowWitness ==
    /\ op = "iter_next" /\ ~gen.clean
    /\ DOMAIN data = Elems
    /\ \E e \in DOMAIN data : data[e] # e

\* C4: an itersets() pass consumed to the end with no other operation in
\* between yields non-empty, pairwise disjoint sets whose union is the set of
\* elements referenced so far, two elements being in the same set exactly
\* when connected reports them connected; on an empty structure it yields
\* nothing.
ItersetsIsPartition ==
    (gen.kind = "itersets" /\ gen.st = "done" /\ gen.clean)
    => /\ raised = "none"
       /\ \A i \in 1..Len(Yielded) : Yielded[i] # {}
       /\ \A i \in 1..Len(Yielded), j \in 1..Len(Yielded) :
             i # j => Yielded[i] \cap Yielded[j] = {}
       /\ UNION Range(Yielded) = referenced
       /\ \A x \in referenced, y \in referenced :
             (\E i \in 1..Len(Yielded) : {x, y} \subseteq Yielded[i])
             <=> Conn(Self, x, y)
       /\ referenced = {} => Len(Yielded) = 0

\* C4 witness: a pass has ended that yielded two sets, one of them with two
\* elements.
ItersetsIsPartitionWitness ==
    /\ gen.kind = "itersets" /\ gen.st = "done" /\ gen.clean
    /\ op = "itersets_next"
    /\ Len(Yielded) = 2
    /\ \E i \in 1..2 : Cardinality(Yielded[i]) = 2

\* the root of every key
RootMap(s) == [k \in DOMAIN s.data |-> RootOf(s, k)]

\* the classes of the keys, from the root of every key
Classes(rm) == {{k \in DOMAIN rm : rm[k] = rm[e]} : e \in DOMAIN rm}

\* C11: find is stable: find(x) returns a root, a second find(x) right after
\* it returns the same element, and no step other than a union changes what
\* find(x) returns, for any x (a step that leaves the structure as it is
\* changes no answer).
FindIsStable ==
    /\ [](\A x \in Elems :
             \A f \in {find(Self, x)} :
                 /\ ~f.exc
                 /\ OwnRoot(f.s, f.ret)
                 /\ find(f.s, x).ret = f.ret)
    /\ [][ \/ op' = "union"
           \/ SelfNext = Self
           \/ \A x \in Elems : RootOf(SelfNext, x) = RootOf(Self, x)
         ]_vars

\* C11 witness: a find has run and left a chain of two parent links, so a
\* find on its first element still has to walk and compress.
FindIsStableWitness ==
    /\ op = "find"
    /\ \E e \in DOMAIN data : Chain(e)

\* C12: union(x, y) on two known elements that have the same root changes
\* neither the keys, nor the partition, nor the root of any element; and for
\* any x and y a second union(x, y) right after the first leaves the keys, the
\* partition and every root as the first one left them.
UnionSameClassIsNoOp ==
    \A rm \in {RootMap(Self)} :
        \A x, y \in Elems :
            \A u \in {union(Self, x, y)} :
                \A ru \in {RootMap(u.s)} :
                    /\ ~u.exc
                    /\ ({x, y} \subseteq DOMAIN data /\ rm[x] = rm[y]) =>
                          /\ u.s.order = order
                          /\ Classes(ru) = Classes(rm)
                          /\ ru = rm
                    /\ \A v \in {union(u.s, x, y)} :
                          \A rv \in {RootMap(v.s)} :
                              /\ ~v.exc
                              /\ v.s.order = u.s.order
                              /\ Classes(rv) = Classes(ru)
                              /\ rv = ru

\* C12 witness: two different known elements already share a root, one of
\* them through a chain, so the union walks, finds equal roots and stops.
UnionSameClassIsNoOpWitness ==
    /\ op = "union"
    /\ \E x, y \in DOMAIN data :
          /\ x # y
          /\ Chain(x)
          /\ RootOf(Self, x) = RootOf(Self, y)

\* C13: every operation is total: no call and no step of a generator raises,
\* in any state and for any element, also a find, union or connected on an
\* unseen element while a pass of iter(ds) is partly consumed.
\* Violated: the find on an unseen element adds a key, and the next step of
\* the running pass raises RuntimeError (dictionary changed size during
\* iteration).
NoOperationRaises ==
    /\ raised = "none"
    /\ \A x, y \in Elems :
          /\ ~find(Self, x).exc
          /\ ~union(Self, x, y).exc
          /\ ~connected(Self, x, y).exc

\* C14: every set that a generator of itersets() has yielded is one of the
\* classes of the partition as it was when itersets() was called, also when
\* find, union or connected ran between that call and the first next().
\* Violated: the body of the generator runs at the first next(), so the sets
\* are the classes of that later state.
ItersetsYieldsClassesAtCall ==
    gen.kind = "itersets" =>
        \A i \in 1..gen.pos : Yielded[i] \in gen.atCall

\* C15: in a pass of iter(ds) with no call in between, every pair yielded so
\* far is (key, find(key)) for a key of the dict, no key is paired twice, and
\* when the pass has ended there is exactly one pair for each key, and no step
\* of the pass has raised.
IterYieldsOnePairPerKey ==
    gen.kind = "iter" =>
        /\ raised = "none"
        /\ \A i \in 1..Len(gen.out) :
              /\ gen.out[i][1] \in DOMAIN data
              /\ gen.out[i][2] = RootOf(Self, gen.out[i][1])
              /\ \A j \in 1..Len(gen.out) : gen.out[j][1] = gen.out[i][1] => j = i
        /\ gen.st = "done" =>
              /\ Len(gen.out) = Cardinality(DOMAIN data)
              /\ {gen.out[i][1] : i \in 1..Len(gen.out)} = DOMAIN data

\* C15 witness: a pass over three keys has ended, and one of its pairs has a
\* root that is not the element.
IterYieldsOnePairPerKeyWitness ==
    /\ gen.kind = "iter"
    /\ gen.st = "done"
    /\ Len(gen.out) = 3
    /\ \E i \in 1..Len(gen.out) : gen.out[i][1] # gen.out[i][2]

\* the key reached from e by following n parent links
RECURSIVE Follow(_, _, _)
Follow(s, e, n) == IF n = 0 THEN e ELSE Follow(s, s.data[e], n - 1)

\* C16: in every state between calls each value of the dict is a key;
\* following the parent links from any key arrives, within as many steps as
\* there are keys, at a key that is its own parent; a key that comes back to
\* itself after one or more links is its own parent; and find on any element
\* ends without exhausting the recursion.
ParentLinksReachARoot ==
    /\ \A k \in DOMAIN data : data[k] \in DOMAIN data
    /\ \A k \in DOMAIN data :
          /\ OwnRoot(Self, Follow(Self, k, Cardinality(DOMAIN data)))
          /\ \A n \in 1..Cardinality(DOMAIN data) :
                Follow(Self, k, n) = k => data[k] = k
    /\ \A x \in Elems : ~find(Self, x).exc

\* C16 witness: a chain of two parent links is in the dict after a union.
ParentLinksReachARootWitness ==
    /\ op = "union"
    /\ Cardinality(DOMAIN data) = MaxElem
    /\ \E e \in DOMAIN data : Chain(e)

\* the keys on the chain of parent links from the key x to its root
PathOf(s, x) == {Follow(s, x, n) : n \in 0..Cardinality(DOMAIN s.data)}

\* C17: when find(x) returns r, every key that was on the chain of parent
\* links from x to its root before the call, x included, has parent r after
\* the call (an unseen x is its own chain).
FindCompressesWholePath ==
    \A x \in Wide :
        \A f \in {find(Self, x)} :
            /\ ~f.exc
            /\ f.s.data[x] = f.ret
            /\ x \in DOMAIN data =>
                  \A n \in PathOf(Self, x) : f.s.data[n] = f.ret

\* C17 witness: some key has a chain of three links, so that compressing the
\* whole chain differs from halving it, and find on it puts the key and the
\* next two keys of the chain right under the root.
FindCompressesWholePathWitness ==
    \E e \in DOMAIN data :
        /\ Cardinality(PathOf(Self, e)) = 4
        /\ \A f \in {find(Self, e)} :
              /\ data[data[e]] # f.ret
              /\ f.s.data[data[e]] = f.ret
              /\ f.s.data[e] = f.ret

\* the keys that are their own parent
Roots(s) == {k \in DOMAIN s.data : s.data[k] = k}

\* what a call that only reads must leave alone, from the current state, with
\* the root of every key rm, to the state t: the keys and their order, the
\* roots, the partition, the root of every key, and the parent of every key
\* outside the set path
Framed(rm, t, path) ==
    \A rt \in {RootMap(t)} :
        /\ t.order = order
        /\ Roots(t) = Roots(Self)
        /\ Classes(rt) = Classes(rm)
        /\ rt = rm
        /\ \A k \in DOMAIN data \ path : t.data[k] = data[k]

\* C18: find(x) on a known x changes no key, makes and removes no root,
\* leaves the partition and the root of every key as they were, and every key
\* off the chain from x to its root keeps its parent; connected(x, y) on
\* known x and y does the same, off the two chains.
FindFrame ==
    \A rm \in {RootMap(Self)} :
        /\ \A x \in DOMAIN data :
              \A f \in {find(Self, x)} :
                  ~f.exc /\ Framed(rm, f.s, PathOf(Self, x))
        /\ \A x, y \in DOMAIN data :
              \A c \in {connected(Self, x, y)} :
                  ~c.exc /\ Framed(rm, c.s, PathOf(Self, x) \cup PathOf(Self, y))

\* C18 witness: a key with a chain of two links, which find rewrites, and a
\* key off that chain that has a parent other than itself.
FindFrameWitness ==
    \E e, k \in DOMAIN data :
        /\ Chain(e)
        /\ k \notin PathOf(Self, e)
        /\ data[k] # k
        /\ find(Self, e).s.data # data

\* the class of the partition pt that holds the key e
ClassIn(pt, e) == Only({C \in pt : e \in C})

\* C19: union(x, y) with x and y under different roots (each made a key
\* first if it was unseen) gives the partition of before with the class of x
\* and the class of y replaced by their union, one class fewer; every key
\* outside these two classes keeps its class, its root and its parent.
UnionFrame ==
    \A x, y \in Wide :
        \A c \in {connected(Self, x, y)} :
            ~c.ans =>
                \A u \in {union(Self, x, y)} :
                    \A pb \in {Partition(c.s)} :
                        \A pu \in {Partition(u.s)} :
                            \A both \in {ClassIn(pb, x) \cup ClassIn(pb, y)} :
                                /\ ~u.exc
                                /\ u.s.order = c.s.order
                                /\ pu = (pb \ {ClassIn(pb, x), ClassIn(pb, y)}) \cup {both}
                                /\ Cardinality(pu) = Cardinality(pb) - 1
                                /\ \A k \in DOMAIN c.s.data \ both :
                                      /\ k \in DOMAIN data
                                      /\ ClassIn(pu, k) = ClassIn(pb, k)
                                      /\ RootOf(u.s, k) = RootOf(Self, k)
                                      /\ u.s.data[k] = data[k]

\* C19 witness: after a union there are two keys under different roots and a
\* key outside their classes that has a parent other than itself.
UnionFrameWitness ==
    /\ op = "union"
    /\ \E x, y, k \in DOMAIN data :
          /\ data[k] # k
          /\ RootOf(Self, x) # RootOf(Self, y)
          /\ RootOf(Self, k) \notin {RootOf(Self, x), RootOf(Self, y)}

\* C20: when a pass of iter(ds) or of itersets() with no call in between has
\* ended, the parent of every key is a root and the partition is the one of
\* the moment the generator was made; and no step of a pass changes the keys
\* or the root of any key.
PassFlattens ==
    /\ [](gen.kind \in {"iter", "itersets"} /\ gen.st = "done" =>
             /\ raised = "none"
             /\ Deep(Self) = {}
             /\ Partition(Self) = gen.atCall)
    /\ [][ op' \in {"iter_next", "itersets_next"} =>
               \/ SelfNext = Self
               \/ RootMap(SelfNext) = RootMap(Self)
         ]_vars

\* C20 witness: a pass of itersets() has ended that began with a key whose
\* parent was not a root.
PassFlattensWitness ==
    /\ gen.kind = "itersets"
    /\ gen.st = "done"
    /\ gen.deep # {}

====
